---- MODULE Spec2Model ----
(***************************************************************************)
(* Model of the Last.fm genre plugin (src/__init__.py): the module-level   *)
(* tag cache and pending-request table, the per-track Processor with its   *)
(* three lookups, the response handler and the merge/join of the tags.     *)
(* Python strings are TLA+ strings; one character is a string of length 1. *)
(***************************************************************************)
EXTENDS Integers, Sequences, FiniteSets, TLC

\* ------------------------------------------------------------------------
\* Bounds of the model
\* ------------------------------------------------------------------------
\* Processors created in a behaviour of Spec.
MaxProcs == 2
\* Processors created in a behaviour of SpecTags.
MaxTagProcs == 1
\* Processors created in a behaviour of SpecShared.
MaxSharedProcs == 3

\* ------------------------------------------------------------------------
\* Program constants
\* ------------------------------------------------------------------------
\* "if (len(combined) + len(tag)) < 255"
GenreLimit == 255
\* IntOption("setting", "lastfm_min_tag_usage", 15)
DefaultMinTagUsage == 15
\* TextOption("setting", "lastfm_join_tags", "")
DefaultJoinTags == ""
LASTFM_KEY == "0a8b8f968b285654f9b4f16e8e33f2ee"

\* ------------------------------------------------------------------------
\* Python values
\* ------------------------------------------------------------------------
\* An optional value: None is the empty tuple, a present value v is <<v>>.
None == <<>>
Some(v) == <<v>>
IsNone(o) == Len(o) = 0
Val(o) == o[1]

Chr(s, i) == SubSeq(s, i, i)
Rest(s) == SubSeq(s, 2, Len(s))

LowerAlpha == "abcdefghijklmnopqrstuvwxyz"
UpperAlpha == "ABCDEFGHIJKLMNOPQRSTUVWXYZ"
Digits == "0123456789"

\* Position of character c in alphabet a, 0 when it is not there.
IndexIn(a, c) ==
    IF \E i \in 1..Len(a) : Chr(a, i) = c
    THEN CHOOSE i \in 1..Len(a) : Chr(a, i) = c
    ELSE 0

UpperChars == {Chr(UpperAlpha, i) : i \in 1..Len(UpperAlpha)}
LowerChars == {Chr(LowerAlpha, i) : i \in 1..Len(LowerAlpha)}

lower_char(c) ==
    IF c \in UpperChars THEN Chr(LowerAlpha, IndexIn(UpperAlpha, c)) ELSE c

upper_char(c) ==
    IF c \in LowerChars THEN Chr(UpperAlpha, IndexIn(LowerAlpha, c)) ELSE c

IsSpace(c) == c = " "

\* str.lower(), character by character (the range lo..hi is halved so that
\* long strings need no deep recursion).
RECURSIVE lower_range(_, _, _)
lower_range(s, lo, hi) ==
    IF lo > hi THEN ""
    ELSE IF lo = hi THEN lower_char(Chr(s, lo))
    ELSE LET mid == (lo + hi) \div 2
         IN  lower_range(s, lo, mid) \o lower_range(s, mid + 1, hi)

lower(s) == lower_range(s, 1, Len(s))

\* str.strip(): leading and trailing white space removed.
strip(s) ==
    LET n == Len(s)
        solid(i) == ~IsSpace(Chr(s, i))
    IN  IF \A i \in 1..n : ~solid(i) THEN ""
        ELSE LET first == CHOOSE i \in 1..n :
                              solid(i) /\ \A j \in 1..(i - 1) : ~solid(j)
                 cut == CHOOSE k \in 0..(n - 1) :
                            solid(n - k) /\ \A j \in (n - k + 1)..n : ~solid(j)
             IN  SubSeq(s, first, n - cut)

\* titlecase(), of the titlecase package: the first letter of every word is
\* capitalised (the tag names are lower case already when it is applied;
\* the package's list of small words left in lower case is not modelled).
titlecase_char(s, i) ==
    IF i = 1 \/ IsSpace(Chr(s, i - 1)) THEN upper_char(Chr(s, i)) ELSE Chr(s, i)

RECURSIVE titlecase_range(_, _, _)
titlecase_range(s, lo, hi) ==
    IF lo > hi THEN ""
    ELSE IF lo = hi THEN titlecase_char(s, lo)
    ELSE LET mid == (lo + hi) \div 2
         IN  titlecase_range(s, lo, mid) \o titlecase_range(s, mid + 1, hi)

titlecase(s) == titlecase_range(s, 1, Len(s))

\* int(text): an optional sign and decimal digits; anything else is a
\* ValueError (ok = FALSE).
RECURSIVE digits_value(_, _)
digits_value(s, acc) ==
    IF s = "" THEN acc
    ELSE digits_value(Rest(s), 10 * acc + (IndexIn(Digits, Chr(s, 1)) - 1))

AllDigits(s) == s # "" /\ \A i \in 1..Len(s) : IndexIn(Digits, Chr(s, i)) > 0

int(text) ==
    LET signed == text # "" /\ Chr(text, 1) \in {"-", "+"}
        body == IF signed THEN Rest(text) ELSE text
    IN  IF AllDigits(body)
        THEN [ok |-> TRUE,
              val |-> IF signed /\ Chr(text, 1) = "-"
                      THEN 0 - digits_value(body, 0)
                      ELSE digits_value(body, 0)]
        ELSE [ok |-> FALSE, val |-> 0]

\* A string of n copies of the character c.
RECURSIVE Rep(_, _)
Rep(c, n) ==
    IF n = 0 THEN ""
    ELSE IF n = 1 THEN c
    ELSE Rep(c, n \div 2) \o Rep(c, n - (n \div 2))

\* Finite maps (Python dicts): functions whose domain grows and shrinks.
EmptyMap == [k \in {} |-> None]
Put(f, k, v) == [x \in DOMAIN f \cup {k} |-> IF x = k THEN v ELSE f[x]]
Del(f, k) == [x \in DOMAIN f \ {k} |-> f[x]]

\* ------------------------------------------------------------------------
\* The response document, as the handler reads it.  A child or attribute
\* that may be missing is an optional value: reading a missing child raises
\* AttributeError, reading a missing attribute of attribs raises KeyError.
\* ------------------------------------------------------------------------
TagNode(name, count) == [name |-> Some(name), count |-> Some(count)]
TopTags(artist, track, tag) == [artist |-> artist, track |-> track, tag |-> tag]
LfmOk(toptags) ==
    [lfm |-> Some([status |-> Some("ok"), error |-> None, toptags |-> toptags])]
LfmFailed ==
    [lfm |-> Some([status |-> Some("failed"),
                   error |-> Some([code |-> "6", text |-> "Artist not found"]),
                   toptags |-> None])]
LfmNoStatus ==
    [lfm |-> Some([status |-> None, error |-> None, toptags |-> None])]
\* What the callback gets on a network error: the raw reply, which has no
\* lfm child.
NoDocument == [lfm |-> None]

\* ------------------------------------------------------------------------
\* Processor.tags_downloaded, lines 148-158: the loop over toptags.tag.
\* Returns the tags collected when the loop is left (by its end, by the
\* break, or by an AttributeError that the handler at line 159 swallows).
\* ------------------------------------------------------------------------
\* The loop with "continue" in the place of the "break" of line 155.
RECURSIVE tag_loop_noskip(_, _, _, _, _)
tag_loop_noskip(tagnodes, i, min_tag_usage, ignore, tags) ==
    IF i > Len(tagnodes) THEN tags
    ELSE LET tag == tagnodes[i] IN
         IF IsNone(tag.name) \/ IsNone(tag.count) THEN tags
         ELSE LET name == lower(strip(Val(tag.name)))
                  parsed == int(strip(Val(tag.count)))
                  count == IF parsed.ok THEN parsed.val ELSE 0
              IN  IF count < min_tag_usage
                  THEN tag_loop_noskip(tagnodes, i + 1, min_tag_usage, ignore, tags)
                  ELSE tag_loop_noskip(tagnodes, i + 1, min_tag_usage, ignore,
                                       IF name \notin ignore
                                       THEN Append(tags, titlecase(name))
                                       ELSE tags)

RECURSIVE tag_loop(_, _, _, _, _)
tag_loop(tagnodes, i, min_tag_usage, ignore, tags) ==
    IF i > Len(tagnodes) THEN tags
    ELSE LET tag == tagnodes[i] IN
         \* tag.name / tag.count missing: AttributeError
         IF IsNone(tag.name) \/ IsNone(tag.count) THEN tags
         ELSE LET name == lower(strip(Val(tag.name)))
                  parsed == int(strip(Val(tag.count)))
                  \* except ValueError: count = 0
                  count == IF parsed.ok THEN parsed.val ELSE 0
              IN  IF count < min_tag_usage
                  THEN tags   \* break
                  ELSE tag_loop(tagnodes, i + 1, min_tag_usage, ignore,
                                IF name \notin ignore
                                THEN Append(tags, titlecase(name))
                                ELSE tags)

\* Lines 131-160: what the handler makes of the document.  outcome is
\*   "tags"   the code goes on to line 162 with the list tags,
\*   "failed" the return of line 139,
\*   "raise"  an exception other than AttributeError leaves the try block.
\* ignore is the Processor's ignore set afterwards (ignore aliases
\* self.ignore_tags, so ignore.add changes the Processor's set).
parse_response(data, ignore_tags, min_tag_usage) ==
    IF IsNone(data.lfm)
    THEN [outcome |-> "tags", tags |-> <<>>, ignore |-> ignore_tags]
    ELSE LET lfm == Val(data.lfm) IN
      IF IsNone(lfm.status)
      THEN [outcome |-> "raise", tags |-> <<>>, ignore |-> ignore_tags]
      ELSE IF Val(lfm.status) = "failed"
      THEN IF IsNone(lfm.error)
           THEN [outcome |-> "tags", tags |-> <<>>, ignore |-> ignore_tags]
           ELSE [outcome |-> "failed", tags |-> <<>>, ignore |-> ignore_tags]
      ELSE IF IsNone(lfm.toptags)
      THEN [outcome |-> "tags", tags |-> <<>>, ignore |-> ignore_tags]
      ELSE LET toptags == Val(lfm.toptags)
               ignore1 == IF IsNone(toptags.artist) THEN ignore_tags
                          ELSE ignore_tags \cup {lower(Val(toptags.artist))}
               ignore2 == IF IsNone(toptags.track) THEN ignore1
                          ELSE ignore1 \cup {lower(Val(toptags.track))}
           IN  IF IsNone(toptags.tag)
               THEN [outcome |-> "tags", tags |-> <<>>, ignore |-> ignore2]
               ELSE [outcome |-> "tags",
                     tags |-> tag_loop(Val(toptags.tag), 1, min_tag_usage,
                                       ignore2, <<>>),
                     ignore |-> ignore2]

\* ------------------------------------------------------------------------
\* Processor.tags_finalize, lines 94-107: merge, de-duplicate, join.
\* ------------------------------------------------------------------------
InSeq(x, seq) == \E i \in 1..Len(seq) : seq[i] = x

\* Line 97: [set.setdefault(e,e) for e in tags if e not in set]
RECURSIVE dedupe_from(_, _, _)
dedupe_from(tags, i, out) ==
    IF i > Len(tags) THEN out
    ELSE dedupe_from(tags, i + 1,
                     IF InSeq(tags[i], out) THEN out ELSE Append(out, tags[i]))

dedupe(tags) == dedupe_from(tags, 1, <<>>)

\* The concatenation of line 94 in the order artist, album, track.
merge_artist_first(track_tags, album_tags, artist_tags) ==
    dedupe(artist_tags \o album_tags \o track_tags)

\* Lines 94-97.
merge(track_tags, album_tags, artist_tags) ==
    dedupe(track_tags \o album_tags \o artist_tags)

\* The join that cuts the string at the limit instead of testing line 105.
RECURSIVE join_cut(_, _, _, _)
join_cut(tags, join_tags, idx, combined) ==
    IF idx > Len(tags) THEN combined
    ELSE LET tag == IF idx > 1 THEN join_tags \o tags[idx] ELSE tags[idx]
             both == combined \o tag
         IN  join_cut(tags, join_tags, idx + 1,
                      IF Len(both) < GenreLimit THEN both
                      ELSE SubSeq(both, 1, GenreLimit - 1))

\* Lines 101-107 (idx is enumerate's index plus one).
RECURSIVE join(_, _, _, _)
join(tags, join_tags, idx, combined) ==
    IF idx > Len(tags) THEN combined
    ELSE LET tag == IF idx > 1 THEN join_tags \o tags[idx] ELSE tags[idx]
         IN  join(tags, join_tags, idx + 1,
                  IF Len(combined) + Len(tag) < GenreLimit
                  THEN combined \o tag
                  ELSE combined)

\* The value written to metadata["genre"]: a list, or the joined string.
GenreList(tags) == [joined |-> FALSE, list |-> tags, text |-> ""]
GenreText(text) == [joined |-> TRUE, list |-> <<>>, text |-> text]

\* ------------------------------------------------------------------------
\* State
\* ------------------------------------------------------------------------
VARIABLES
    config,     \* config.setting: lastfm_min_tag_usage, lastfm_join_tags
    cache,      \* _cache: cachekey -> tag list
    pending,    \* _pending_xmlws_requests: cachekey -> list of set_tags
    requests,   \* album._requests, per album object
    procs,      \* the Processor objects, in order of creation
    inflight,   \* requests handed to xmlws.get whose callback has not run
    loads,      \* history: calls of album._finalize_loading, per album
    sent,       \* history: the calls of xmlws.get, in order
    answered,   \* history: cachekey -> the response its request got
    calls       \* history: the set_tags calls made by the last step

vars == <<config, cache, pending, requests, procs, inflight, loads, sent,
          answered, calls>>

\* The album objects of the host.
Albums == {"album1", "album2"}

\* ignore_tags.txt, one tag per line.
IgnoreFile == <<"seen live", "Favorites">>

\* The three set_tags callbacks of a Processor are named by the slot they
\* fill.
Slots == {"artist_tags", "track_tags", "album_tags"}
Callback(p, slot) == [proc |-> p, slot |-> slot]

\* The state as one record, so that a handler's statements compose.
State ==
    [config |-> config, cache |-> cache, pending |-> pending,
     requests |-> requests, procs |-> procs, inflight |-> inflight,
     loads |-> loads, sent |-> sent, answered |-> answered, calls |-> <<>>]

Becomes(after) ==
    \E s \in {after} :
    /\ config' = s.config
    /\ cache' = s.cache
    /\ pending' = s.pending
    /\ requests' = s.requests
    /\ procs' = s.procs
    /\ inflight' = s.inflight
    /\ loads' = s.loads
    /\ sent' = s.sent
    /\ answered' = s.answered
    /\ calls' = s.calls

\* Lines 58-76: the cache key of each lookup.
artist_key(md) == "ar-" \o md.artist
track_key(md) == "t-" \o md.artist \o "-" \o md.title
album_key(md) == "al-" \o md.album \o "-" \o md.albumartist

cachekey_of(md, slot) ==
    CASE slot = "artist_tags" -> artist_key(md)
      [] slot = "track_tags" -> track_key(md)
      [] slot = "album_tags" -> album_key(md)

\* ------------------------------------------------------------------------
\* Processor.tags_finalize, lines 90-109.
\* ------------------------------------------------------------------------
\* tags_finalize without the early return of lines 91-92.
tags_finalize_unguarded(s, p) ==
    LET self == s.procs[p]
        slot(o) == IF IsNone(o) THEN <<>> ELSE Val(o)
        tags == merge(slot(self.track_tags), slot(self.album_tags),
                      slot(self.artist_tags))
        join_tags == s.config.join_tags
        genre == IF join_tags # ""
                 THEN GenreText(join(tags, join_tags, 1, ""))
                 ELSE GenreList(tags)
    IN  [s EXCEPT !.procs[p].merged = Some(tags),
                  !.procs[p].genre = Some(genre),
                  !.procs[p].writes = @ + 1]

tags_finalize(s, p) ==
    LET self == s.procs[p] IN
    IF IsNone(self.artist_tags) \/ IsNone(self.track_tags)
           \/ IsNone(self.album_tags)
    THEN s
    ELSE LET tags == merge(Val(self.track_tags), Val(self.album_tags),
                           Val(self.artist_tags))
             join_tags == s.config.join_tags
             genre == IF join_tags # ""
                      THEN GenreText(join(tags, join_tags, 1, ""))
                      ELSE GenreList(tags)
         IN  [s EXCEPT !.procs[p].merged = Some(tags),
                       !.procs[p].genre = Some(genre),
                       !.procs[p].writes = @ + 1]

\* Lines 78-88: set_artist_tags, set_track_tags, set_album_tags.  The call
\* is logged with what the two tables hold for its key when it is made.
set_tags(s, cb, tags) ==
    LET key == cachekey_of(s.procs[cb.proc].metadata, cb.slot)
        s1 == [s EXCEPT
                 !.procs[cb.proc][cb.slot] = Some(tags),
                 !.calls = Append(@, [proc |-> cb.proc, slot |-> cb.slot,
                                      key |-> key, tags |-> tags,
                                      cached |-> key \in DOMAIN s.cache,
                                      pending |-> key \in DOMAIN s.pending])]
    IN  tags_finalize(s1, cb.proc)

\* ------------------------------------------------------------------------
\* Processor.get_tags, lines 111-126.
\* ------------------------------------------------------------------------
issue_request(s, p, params, cachekey, cb) ==
    LET req == [cachekey |-> cachekey, proc |-> p, set_tags |-> cb,
                params |-> Append(params, <<"api_key", LASTFM_KEY>>)]
    IN  [s EXCEPT !.pending = Put(@, cachekey, <<>>),
                  !.requests[s.procs[p].album] = @ + 1,
                  !.inflight = @ \cup {req},
                  !.sent = Append(@, req)]

\* get_tags without the test of line 116.
get_tags_always_request(s, p, params, cachekey, cb) ==
    IF cachekey \in DOMAIN s.cache
    THEN set_tags(s, cb, s.cache[cachekey])
    ELSE issue_request(s, p, params, cachekey, cb)

\* get_tags without the test of line 112.
get_tags_refetch(s, p, params, cachekey, cb) ==
    IF cachekey \in DOMAIN s.pending
    THEN [s EXCEPT !.pending[cachekey] = Append(@, cb)]
    ELSE issue_request(s, p, params, cachekey, cb)

\* get_tags putting the callback at the head of the list at line 117.
get_tags_prepend(s, p, params, cachekey, cb) ==
    IF cachekey \in DOMAIN s.cache
    THEN set_tags(s, cb, s.cache[cachekey])
    ELSE IF cachekey \in DOMAIN s.pending
    THEN [s EXCEPT !.pending[cachekey] = <<cb>> \o @]
    ELSE issue_request(s, p, params, cachekey, cb)

\* get_tags counting a cache hit as a request of the album.
get_tags_hit_counted(s, p, params, cachekey, cb) ==
    IF cachekey \in DOMAIN s.cache
    THEN set_tags([s EXCEPT !.requests[s.procs[p].album] = @ + 1], cb,
                  s.cache[cachekey])
    ELSE IF cachekey \in DOMAIN s.pending
    THEN [s EXCEPT !.pending[cachekey] = Append(@, cb)]
    ELSE issue_request(s, p, params, cachekey, cb)

get_tags(s, p, params, cachekey, cb) ==
    IF cachekey \in DOMAIN s.cache
    THEN set_tags(s, cb, s.cache[cachekey])
    ELSE IF cachekey \in DOMAIN s.pending
    THEN [s EXCEPT !.pending[cachekey] = Append(@, cb)]
    ELSE issue_request(s, p, params, cachekey, cb)

\* ------------------------------------------------------------------------
\* Processor.__init__, lines 36-76.
\* ------------------------------------------------------------------------
Processor(s, album, metadata) ==
    LET p == Len(s.procs) + 1
        self == [album |-> album,
                 metadata |-> metadata,
                 min_tag_usage |-> s.config.min_tag_usage,
                 ignore_tags |-> {lower(IgnoreFile[i]) : i \in 1..Len(IgnoreFile)},
                 artist_tags |-> None,
                 track_tags |-> None,
                 album_tags |-> None,
                 genre |-> None,
                 merged |-> None,
                 writes |-> 0]
        s0 == [s EXCEPT !.procs = Append(@, self)]
        s1 == get_tags(s0, p,
                       <<<<"method", "artist.gettoptags">>,
                         <<"artist", metadata.artist>>>>,
                       artist_key(metadata), Callback(p, "artist_tags"))
        s2 == get_tags(s1, p,
                       <<<<"method", "track.gettoptags">>,
                         <<"track", metadata.title>>,
                         <<"artist", metadata.artist>>>>,
                       track_key(metadata), Callback(p, "track_tags"))
    IN  get_tags(s2, p,
                 <<<<"method", "album.gettoptags">>,
                   <<"album", metadata.album>>,
                   <<"artist", metadata.albumartist>>>>,
                 album_key(metadata), Callback(p, "album_tags"))

\* ------------------------------------------------------------------------
\* Processor.tags_downloaded, lines 128-177.
\* ------------------------------------------------------------------------
\* Lines 169-170: the delayed calls, in list order.
RECURSIVE run_pending(_, _, _, _)
run_pending(s, waiting, i, tags) ==
    IF i > Len(waiting) THEN s
    ELSE run_pending(set_tags(s, waiting[i], tags), waiting, i + 1, tags)

\* Lines 162-170 with the del of line 168 after the loop of lines 169-170.
store_and_release_late_delete(s, cachekey, cb, tags) ==
    LET s1 == [s EXCEPT !.cache = Put(@, cachekey, tags)]
        s2 == set_tags(s1, cb, tags)
    IN  IF cachekey \in DOMAIN s2.pending
        THEN LET s3 == run_pending(s2, s2.pending[cachekey], 1, tags)
             IN  [s3 EXCEPT !.pending = Del(@, cachekey)]
        ELSE s2

\* Lines 162-170.
store_and_release(s, cachekey, cb, tags) ==
    LET s1 == [s EXCEPT !.cache = Put(@, cachekey, tags)]
        s2 == set_tags(s1, cb, tags)
    IN  IF cachekey \in DOMAIN s2.pending
        THEN run_pending([s2 EXCEPT !.pending = Del(@, cachekey)],
                         s2.pending[cachekey], 1, tags)
        ELSE s2

\* Lines 175-177, the finally block.
finally_block(s, album) ==
    [s EXCEPT !.requests[album] = @ - 1, !.loads[album] = @ + 1]

\* tags_downloaded with lines 176-177 after line 170 instead of in finally.
tags_downloaded_no_finally(s, req, data, error) ==
    LET self == s.procs[req.proc]
        r == parse_response(data, self.ignore_tags, self.min_tag_usage)
        s1 == [s EXCEPT
                 !.procs[req.proc].ignore_tags = r.ignore,
                 !.answered = Put(@, req.cachekey,
                                  [proc |-> req.proc, data |-> data,
                                   error |-> error, outcome |-> r.outcome,
                                   tags |-> r.tags, ignore |-> r.ignore])]
    IN  IF r.outcome = "tags"
        THEN finally_block(store_and_release(s1, req.cachekey, req.set_tags,
                                             r.tags),
                           self.album)
        ELSE s1

tags_downloaded(s, req, data, error) ==
    LET self == s.procs[req.proc]
        r == parse_response(data, self.ignore_tags, self.min_tag_usage)
        s1 == [s EXCEPT
                 !.procs[req.proc].ignore_tags = r.ignore,
                 !.answered = Put(@, req.cachekey,
                                  [proc |-> req.proc, data |-> data,
                                   error |-> error, outcome |-> r.outcome,
                                   tags |-> r.tags, ignore |-> r.ignore])]
        s2 == IF r.outcome = "tags"
              THEN store_and_release(s1, req.cachekey, req.set_tags, r.tags)
              ELSE s1
    IN  finally_block(s2, self.album)

\* ------------------------------------------------------------------------
\* Inputs
\* ------------------------------------------------------------------------
Track(albumobj, artist, title, album, albumartist) ==
    [albumobj |-> albumobj,
     metadata |-> [artist |-> artist, title |-> title, album |-> album,
                   albumartist |-> albumartist]]

\* A track of one album, and a track of a compilation loaded as a second
\* album object: the two share the album lookup, and the artist and title
\* of the one concatenate to the same text as those of the other.
Tracks ==
    {Track("album1", "a", "b-c", "lp", "a"),
     Track("album2", "a-b", "c", "lp", "a")}

Reply(error, data) == [error |-> error, data |-> data]

DocRock ==
    LfmOk(Some(TopTags(None, None,
        Some(<<TagNode("rock", "50"), TagNode("indie", "40"),
               TagNode("obscure", "9")>>))))
\* The responses a request can get in Spec: a tag list, a failure status,
\* a network error, a document without toptags and a document without a
\* status attribute.
Responses ==
    {Reply(0, DocRock), Reply(0, LfmFailed), Reply(3, NoDocument),
     Reply(0, LfmOk(None)), Reply(0, LfmNoStatus)}

MinTagUsages == {DefaultMinTagUsage}
JoinTags == {DefaultJoinTags, ", "}

\* The inputs of SpecTags: one track, and responses whose tag lists
\* exercise the threshold, the ignore set, the merge and the length limit
\* of the joined string.
TagTracks == {Track("album1", "a", "b-c", "lp", "a")}

DocDip ==
    LfmOk(Some(TopTags(None, None,
        Some(<<TagNode("rock", "50"), TagNode("pop", "40"),
               TagNode("obscure", "9"), TagNode("indie", "40")>>))))
DocMixed ==
    LfmOk(Some(TopTags(Some("Indie"), None,
        Some(<<TagNode(" Seen Live ", "80"), TagNode("Pop", " 70 "),
               TagNode("indie", "60"), TagNode("jazz", "12"),
               TagNode("blues", "many"), TagNode("soul", "11")>>))))
DocJazzRock ==
    LfmOk(Some(TopTags(None, Some("B-C"),
        Some(<<TagNode("jazz", "90"), TagNode("rock", "80"),
               [name |-> None, count |-> Some("70")],
               TagNode("folk", "60")>>))))
DocLongX ==
    LfmOk(Some(TopTags(None, None,
        Some(<<TagNode(Rep("x", 126), "99")>>))))
DocLongZ ==
    LfmOk(Some(TopTags(None, None,
        Some(<<TagNode(Rep("z", 127), "99"), TagNode("rock", "98")>>))))
DocHuge ==
    LfmOk(Some(TopTags(None, None,
        Some(<<TagNode(Rep("w", 255), "99"), TagNode("pop", "98")>>))))

TagResponses ==
    {Reply(0, DocRock), Reply(0, DocDip), Reply(0, DocMixed),
     Reply(0, DocJazzRock), Reply(0, DocLongX), Reply(0, DocLongZ),
     Reply(0, DocHuge)}

TagMinTagUsages == {10, DefaultMinTagUsage}
TagJoinTags == {DefaultJoinTags, ", ", "/"}

\* ------------------------------------------------------------------------
\* Actions
\* ------------------------------------------------------------------------
Init ==
    /\ config = [min_tag_usage |-> DefaultMinTagUsage,
                 join_tags |-> DefaultJoinTags]
    /\ cache = EmptyMap
    /\ pending = EmptyMap
    /\ requests = [a \in Albums |-> 0]
    /\ procs = <<>>
    /\ inflight = {}
    /\ loads = [a \in Albums |-> 0]
    /\ sent = <<>>
    /\ answered = EmptyMap
    /\ calls = <<>>

\* process_track, lines 179-180: the host calls it for a track.
process_track(limit, track) ==
    /\ Len(procs) < limit
    /\ Becomes(Processor(State, track.albumobj, track.metadata))

\* The host delivers the response of a request that is in flight.
response(req, reply) ==
    /\ req \in inflight
    /\ Becomes(tags_downloaded([State EXCEPT !.inflight = @ \ {req}],
                               req, reply.data, reply.error))

\* LastfmOptionsPage.save, lines 208-213.
save(min_tag_usage, join_tags) ==
    LET setting == [min_tag_usage |-> min_tag_usage, join_tags |-> join_tags]
    IN  Becomes([State EXCEPT !.config = setting])

Next ==
    \/ \E track \in Tracks : process_track(MaxProcs, track)
    \/ \E req \in inflight, reply \in Responses : response(req, reply)
    \/ \E m \in MinTagUsages, j \in JoinTags : save(m, j)

Spec == Init /\ [][Next]_vars

\* The same program with one track and the tag-list inputs.  The settings
\* are those saved by an earlier session and stay as they are.
InitTags ==
    /\ config \in [min_tag_usage : TagMinTagUsages, join_tags : TagJoinTags]
    /\ cache = EmptyMap
    /\ pending = EmptyMap
    /\ requests = [a \in Albums |-> 0]
    /\ procs = <<>>
    /\ inflight = {}
    /\ loads = [a \in Albums |-> 0]
    /\ sent = <<>>
    /\ answered = EmptyMap
    /\ calls = <<>>

NextTags ==
    \/ \E track \in TagTracks : process_track(MaxTagProcs, track)
    \/ \E req \in inflight, reply \in TagResponses : response(req, reply)

SpecTags == InitTags /\ [][NextTags]_vars

\* The same program with several Processors for one track, so that all of
\* them look up the same three keys; among the responses is a tag list one
\* of whose tags has no name.
DocNameless ==
    LfmOk(Some(TopTags(None, None,
        Some(<<TagNode("rock", "50"), [name |-> None, count |-> Some("40")],
               TagNode("pop", "30")>>))))

SharedResponses == Responses \cup {Reply(0, DocNameless)}

NextShared ==
    \/ \E track \in TagTracks : process_track(MaxSharedProcs, track)
    \/ \E req \in inflight, reply \in SharedResponses : response(req, reply)
    \/ \E m \in MinTagUsages, j \in JoinTags : save(m, j)

SpecShared == Init /\ [][NextShared]_vars

\* The program when no response is a semantic failure and the host runs
\* the callback of every request it accepted.
LiveResponses == Responses \ {Reply(0, LfmFailed)}

respond == \E req \in inflight, reply \in LiveResponses : response(req, reply)

NextLive ==
    \/ \E track \in Tracks : process_track(MaxProcs, track)
    \/ respond
    \/ \E m \in MinTagUsages, j \in JoinTags : save(m, j)

SpecLive == Init /\ [][NextLive]_vars /\ WF_vars(respond)

\* ------------------------------------------------------------------------
\* Vocabulary of the properties
\* ------------------------------------------------------------------------
\* The set_tags callbacks that exist, the key each was looked up with and
\* the value it has delivered (None while it has not been called).
Callbacks == {Callback(p, slot) : p \in 1..Len(procs), slot \in Slots}
KeyOf(cb) == cachekey_of(procs[cb.proc].metadata, cb.slot)
Delivered(cb) == procs[cb.proc][cb.slot]
LookedUp == {KeyOf(cb) : cb \in Callbacks}
CallbacksOf(k) == {cb \in Callbacks : KeyOf(cb) = k}

\* The calls of xmlws.get made for key k.
SentFor(k) == {i \in 1..Len(sent) : sent[i].cachekey = k}

\* The keys whose response was of each kind.
Succeeded(k) ==
    /\ k \in DOMAIN answered
    /\ answered[k].outcome = "tags"
    /\ answered[k].error = 0
    /\ ~IsNone(answered[k].data.lfm)
    /\ ~IsNone(Val(answered[k].data.lfm).toptags)
TransportFailed(k) ==
    /\ k \in DOMAIN answered
    /\ answered[k].error # 0
    /\ IsNone(answered[k].data.lfm)
SemanticFailed(k) ==
    /\ k \in DOMAIN answered
    /\ answered[k].outcome = "failed"
Raised(k) ==
    /\ k \in DOMAIN answered
    /\ answered[k].outcome = "raise"

\* ------------------------------------------------------------------------
\* C1: however many get_tags calls are made for a key before its response
\* is processed, exactly one request is sent for the key, the other callers
\* wait in the pending list, and once a successful response has been
\* processed every one of the callers has been given the same tag list, the
\* one parsed from that response.
\* ------------------------------------------------------------------------
C1_OneRequestSameTags ==
    \A k \in LookedUp :
        /\ k \notin DOMAIN answered =>
             /\ Cardinality(SentFor(k)) = 1
             /\ Cardinality({req \in inflight : req.cachekey = k}) = 1
             /\ k \in DOMAIN pending
             /\ \A cb \in CallbacksOf(k) :
                    \/ \E req \in inflight : req.set_tags = cb
                    \/ InSeq(cb, pending[k])
        /\ Succeeded(k) =>
             /\ Cardinality(SentFor(k)) = 1
             /\ \A cb \in CallbacksOf(k) :
                    Delivered(cb) = Some(answered[k].tags)

\* A successful response has just released the requester and a waiter of
\* another Processor with a non-empty tag list.
C1_Witness ==
    /\ Len(calls) >= 2
    /\ calls[1].key = calls[2].key
    /\ calls[1].proc # calls[2].proc
    /\ calls[1].pending
    /\ Succeeded(calls[1].key)
    /\ calls[1].tags # <<>>
    /\ calls[2].tags = calls[1].tags

\* ------------------------------------------------------------------------
\* C2: the write of metadata["genre"] happens exactly once per Processor,
\* when its three slots are filled, and never before or again: the number
\* of writes is 1 if all three slots are set and 0 otherwise.
\* ------------------------------------------------------------------------
AllSlotsSet(p) ==
    /\ ~IsNone(procs[p].artist_tags)
    /\ ~IsNone(procs[p].track_tags)
    /\ ~IsNone(procs[p].album_tags)

C2_FinalizeOnce ==
    \A p \in 1..Len(procs) :
        /\ procs[p].writes = IF AllSlotsSet(p) THEN 1 ELSE 0
        /\ IsNone(procs[p].genre) <=> procs[p].writes = 0

\* A Processor whose three lookups were all answered from the cache during
\* its construction, and one completed by responses.
C2_Witness ==
    /\ Len(procs) = 2
    /\ Len(calls) = 3
    /\ \A i \in 1..3 : calls[i].proc = 2 /\ calls[i].cached /\ ~calls[i].pending
    /\ procs[2].writes = 1
    /\ procs[1].writes = 1

\* ------------------------------------------------------------------------
\* C3: after a network error (error set, no lfm document) nothing is in the
\* cache for the key of the request.
\* ------------------------------------------------------------------------
C3_TransportErrorNotCached ==
    \A k \in DOMAIN answered : TransportFailed(k) => k \notin DOMAIN cache

\* ------------------------------------------------------------------------
\* C4: after a response with status 'failed' the key is not cached and a
\* get_tags call for it would send a new request, that is, the key is in
\* neither table.
\* ------------------------------------------------------------------------
C4_FailedKeyEligible ==
    \A k \in DOMAIN answered :
        SemanticFailed(k) => k \notin DOMAIN cache /\ k \notin DOMAIN pending

\* ------------------------------------------------------------------------
\* C5: every request sent is matched, whatever its response, by exactly one
\* decrement of its album's _requests and one call of _finalize_loading:
\* an album's counter is the number of its requests still in flight (so it
\* is never below its initial 0 and is 0 when all are answered), and the
\* calls of _finalize_loading are as many as its requests answered.
\* ------------------------------------------------------------------------
SentBy(a) == {i \in 1..Len(sent) : procs[sent[i].proc].album = a}

C5_CounterBalanced ==
    \A a \in Albums :
        /\ requests[a] >= 0
        /\ requests[a] =
              Cardinality({i \in SentBy(a) : sent[i] \in inflight})
        /\ loads[a] =
              Cardinality({i \in SentBy(a) : sent[i] \notin inflight})

\* Every request has been answered, among them by a failure status, by a
\* network error and by a document that makes the handler raise.
C5_Witness ==
    /\ procs # <<>>
    /\ inflight = {}
    /\ \E k \in DOMAIN answered : SemanticFailed(k)
    /\ \E k \in DOMAIN answered : TransportFailed(k)
    /\ \E k \in DOMAIN answered : Raised(k)
    /\ \A a \in Albums : requests[a] = 0

\* ------------------------------------------------------------------------
\* C6: once the response for a key has been processed the key is not in
\* the pending table and every callback registered for it has been called.
\* ------------------------------------------------------------------------
C6_ResponseReleasesWaiters ==
    \A k \in DOMAIN answered :
        /\ k \notin DOMAIN pending
        /\ \A cb \in CallbacksOf(k) : ~IsNone(Delivered(cb))

\* ------------------------------------------------------------------------
\* C7: a cache entry, once written, is never changed or removed, no request
\* that could write it again is in flight, and every tag list delivered for
\* the key is the cached one.
\* ------------------------------------------------------------------------
CacheEntriesKept ==
    \A k \in DOMAIN cache : k \in DOMAIN cache' /\ cache'[k] = cache[k]

CacheServesAll ==
    /\ \A req \in inflight : req.cachekey \notin DOMAIN cache
    /\ \A cb \in Callbacks :
           ~IsNone(Delivered(cb)) =>
               KeyOf(cb) \in DOMAIN cache /\ Delivered(cb) = Some(cache[KeyOf(cb)])

C7_CacheWriteOnce == [][CacheEntriesKept]_vars /\ []CacheServesAll

\* A get_tags call of a later Processor has just been served from the
\* cache, with a non-empty tag list.
C7_Witness ==
    /\ calls # <<>>
    /\ calls[1].cached
    /\ ~calls[1].pending
    /\ calls[1].tags # <<>>
    /\ calls[1].proc = 2

\* ------------------------------------------------------------------------
\* C8: parsing stops at the first tag whose count (0 when it is not a
\* number) is below min_tag_usage: every tag of the resulting list is the
\* title-cased name of a tag that stands before the first below-threshold
\* tag of the response.  Counts 50, 40, 9 with threshold 10 give the first
\* two tags, "Rock" and "Indie" (unless the ignore set holds one of them).
\* ------------------------------------------------------------------------
HasTagList(k) ==
    /\ Succeeded(k)
    /\ ~IsNone(Val(Val(answered[k].data.lfm).toptags).tag)
TagNodes(k) == Val(Val(Val(answered[k].data.lfm).toptags).tag)
ThresholdOf(k) == procs[answered[k].proc].min_tag_usage

CountOf(node) ==
    IF IsNone(node.count) THEN 0
    ELSE LET parsed == int(strip(Val(node.count)))
         IN  IF parsed.ok THEN parsed.val ELSE 0

\* Index of the first tag below the threshold, Len + 1 if there is none.
FirstBelow(nodes, threshold) ==
    LET below == {i \in 1..Len(nodes) : CountOf(nodes[i]) < threshold}
    IN  IF below = {} THEN Len(nodes) + 1
        ELSE CHOOSE i \in below : \A j \in below : i <= j

C8_StopAtFirstBelow ==
    \A k \in DOMAIN answered :
        HasTagList(k) =>
            LET nodes == TagNodes(k)
                cut == FirstBelow(nodes, ThresholdOf(k))
                tags == answered[k].tags
            IN  /\ \A i \in 1..Len(tags) :
                       \E j \in 1..(cut - 1) :
                           /\ ~IsNone(nodes[j].name)
                           /\ tags[i] = titlecase(lower(strip(Val(nodes[j].name))))
                /\ (/\ answered[k].data = DocRock
                    /\ ThresholdOf(k) = 10
                    /\ answered[k].ignore \cap {"rock", "indie"} = {})
                       => tags = <<"Rock", "Indie">>

\* A response in which a tag with count 40 follows the tag with count 9 has
\* been parsed, and so has the response with counts 50, 40, 9, at
\* threshold 10.
C8_Witness ==
    /\ \E k \in DOMAIN answered :
           /\ answered[k].data = DocDip
           /\ answered[k].tags = <<"Rock", "Pop">>
    /\ \E k \in DOMAIN answered :
           /\ answered[k].data = DocRock
           /\ ThresholdOf(k) = 10
           /\ answered[k].tags = <<"Rock", "Indie">>

\* ------------------------------------------------------------------------
\* C9: the merged list of tags_finalize holds every tag of the track, album
\* and artist lists exactly once, in the order of first occurrence in the
\* concatenation track, album, artist; it is what is written to genre when
\* no separator is configured.  Track Rock, Pop; album Pop, Jazz; artist
\* Jazz, Rock merge to Rock, Pop, Jazz.
\* ------------------------------------------------------------------------
Elems(seq) == {seq[i] : i \in 1..Len(seq)}
FirstIdx(seq, x) ==
    CHOOSE i \in 1..Len(seq) : seq[i] = x /\ \A j \in 1..(i - 1) : seq[j] # x

C9_MergeFirstSeen ==
    \A p \in 1..Len(procs) :
        ~IsNone(procs[p].merged) =>
            LET track == Val(procs[p].track_tags)
                album == Val(procs[p].album_tags)
                artist == Val(procs[p].artist_tags)
                all == track \o album \o artist
                m == Val(procs[p].merged)
            IN  /\ Elems(m) = Elems(all)
                /\ \A i, j \in 1..Len(m) :
                       i < j => m[i] # m[j]
                                /\ FirstIdx(all, m[i]) < FirstIdx(all, m[j])
                /\ ~Val(procs[p].genre).joined => Val(procs[p].genre).list = m
                /\ (/\ track = <<"Rock", "Pop">>
                    /\ album = <<"Pop", "Jazz">>
                    /\ artist = <<"Jazz", "Rock">>)
                       => m = <<"Rock", "Pop", "Jazz">>

C9_Witness ==
    \E p \in 1..Len(procs) :
        /\ procs[p].track_tags = Some(<<"Rock", "Pop">>)
        /\ procs[p].album_tags = Some(<<"Pop", "Jazz">>)
        /\ procs[p].artist_tags = Some(<<"Jazz", "Rock">>)
        /\ procs[p].merged = Some(<<"Rock", "Pop", "Jazz">>)
        /\ procs[p].genre = Some(GenreList(<<"Rock", "Pop", "Jazz">>))

\* ------------------------------------------------------------------------
\* C10: with a separator configured, the string written to genre is
\* shorter than 255 characters and is a concatenation of whole pieces, each
\* a tag of the merged list or the separator followed by such a tag.
\* ------------------------------------------------------------------------
Pieces(tags, sep) ==
    {pc \in Elems(tags) \cup {sep \o tags[i] : i \in 1..Len(tags)} : pc # ""}

RECURSIVE SplitsFrom(_, _, _)
SplitsFrom(text, pos, pieces) ==
    \/ pos = Len(text) + 1
    \/ \E pc \in pieces :
           /\ pos + Len(pc) - 1 <= Len(text)
           /\ SubSeq(text, pos, pos + Len(pc) - 1) = pc
           /\ SplitsFrom(text, pos + Len(pc), pieces)

RECURSIVE SumLen(_, _)
SumLen(tags, i) == IF i > Len(tags) THEN 0 ELSE Len(tags[i]) + SumLen(tags, i + 1)

\* Length of the merged list joined without a limit.
FullJoinLen(tags, sep) ==
    SumLen(tags, 1) + (IF Len(tags) > 1 THEN (Len(tags) - 1) * Len(sep) ELSE 0)

C10_JoinedWholeAndShort ==
    \A p \in 1..Len(procs) :
        (~IsNone(procs[p].genre) /\ Val(procs[p].genre).joined) =>
            LET text == Val(procs[p].genre).text
            IN  /\ Len(text) < GenreLimit
                /\ SplitsFrom(text, 1,
                              Pieces(Val(procs[p].merged), config.join_tags))

\* A joined genre of 254 characters, cut from a merged list whose full join
\* is longer than the limit.
C10_Witness ==
    \E p \in 1..Len(procs) :
        /\ ~IsNone(procs[p].genre)
        /\ Val(procs[p].genre).joined
        /\ Len(Val(procs[p].genre).text) = GenreLimit - 1
        /\ FullJoinLen(Val(procs[p].merged), config.join_tags) >= GenreLimit

\* ------------------------------------------------------------------------
\* C11: with a separator configured, appending stops at the first tag that
\* does not fit: the genre string is the separator-join of the longest
\* prefix of the merged list whose join is shorter than 255 characters.
\* ------------------------------------------------------------------------
\* The first n tags joined with the separator, without a limit.
RECURSIVE JoinPrefix(_, _, _)
JoinPrefix(tags, sep, n) ==
    IF n = 0 THEN ""
    ELSE IF n = 1 THEN tags[1]
    ELSE JoinPrefix(tags, sep, n - 1) \o sep \o tags[n]

C11_JoinIsLongestPrefix ==
    \A p \in 1..Len(procs) :
        (~IsNone(procs[p].genre) /\ Val(procs[p].genre).joined) =>
            LET m == Val(procs[p].merged)
                text == Val(procs[p].genre).text
            IN  \E n \in 0..Len(m) :
                    /\ text = JoinPrefix(m, config.join_tags, n)
                    /\ n < Len(m) =>
                           Len(JoinPrefix(m, config.join_tags, n + 1)) >= GenreLimit

\* ------------------------------------------------------------------------
\* C12: when a response is processed the key is in the cache at every call
\* of a callback, and it has left the pending table before any waiter is
\* called; the callback of the request itself (line 163) is called while
\* the key is still in the pending table, which is emptied only at line 168.
\* ------------------------------------------------------------------------
\* The call is of the callback that went out with the request for its key.
IsRequester(call) ==
    \E i \in 1..Len(sent) :
        /\ sent[i].cachekey = call.key
        /\ sent[i].set_tags = Callback(call.proc, call.slot)

C12_CachedBeforeCalls ==
    \A i \in 1..Len(calls) :
        /\ calls[i].cached
        /\ calls[i].pending <=> IsRequester(calls[i])

\* The claim as stated: no callback runs while its key is pending.
C12_UnpendingBeforeCalls ==
    \A i \in 1..Len(calls) : calls[i].cached /\ ~calls[i].pending

\* A response has just been processed for a key with a waiter.
C12_Witness ==
    /\ Len(calls) = 2
    /\ calls[1].key = calls[2].key
    /\ IsRequester(calls[1])
    /\ calls[1].pending
    /\ ~IsRequester(calls[2])
    /\ ~calls[2].pending
    /\ calls[2].cached

\* ------------------------------------------------------------------------
\* C13: the callbacks for a key are called in the order in which they were
\* registered: the requester's first, then the waiters' in the order of
\* their get_tags calls, which is the order in which their Processors were
\* created.
\* ------------------------------------------------------------------------
C13_FirstRegisteredFirstServed ==
    \A j \in 1..Len(calls) :
        LET earlier == {i \in 1..(j - 1) : calls[i].key = calls[j].key}
        IN  earlier # {} =>
                /\ calls[1].key = calls[j].key
                /\ IsRequester(calls[1])
                /\ ~IsRequester(calls[j])
                /\ \A i \in earlier : calls[i].proc < calls[j].proc

\* One response has released the requester and two waiters, in this order.
C13_Witness ==
    /\ Len(calls) = 3
    /\ DOMAIN answered = {calls[1].key}
    /\ calls[1].key = calls[2].key
    /\ calls[2].key = calls[3].key
    /\ <<calls[1].proc, calls[2].proc, calls[3].proc>> = <<1, 2, 3>>

\* ------------------------------------------------------------------------
\* C14: a get_tags call for a key that is in the cache hands the cached
\* list to the callback in the same step and changes nothing else: no
\* request is sent for the key, the key's entry in the pending map and the
\* cache are as before, and the album's _requests counter moves only by
\* the requests sent for the Processor's other keys.
\* ------------------------------------------------------------------------
C14_CacheHitFrame ==
    [][Len(procs') = Len(procs) + 1 =>
         LET p == Len(procs')
             self == procs'[p]
             hits == {slot \in Slots :
                         cachekey_of(self.metadata, slot) \in DOMAIN cache}
             new == {sent'[i] : i \in (Len(sent) + 1)..Len(sent')}
         IN  /\ cache' = cache
             /\ \A slot \in hits :
                   LET key == cachekey_of(self.metadata, slot) IN
                   /\ self[slot] = Some(cache[key])
                   /\ \E i \in 1..Len(calls') :
                         /\ calls'[i].proc = p
                         /\ calls'[i].slot = slot
                         /\ calls'[i].tags = cache[key]
                   /\ \A req \in new : req.cachekey # key
                   /\ key \in DOMAIN pending' <=> key \in DOMAIN pending
                   /\ key \in DOMAIN pending => pending'[key] = pending[key]
             /\ requests'[self.album] =
                   requests[self.album] + (Len(sent') - Len(sent))
             /\ \A album \in Albums \ {self.album} :
                   requests'[album] = requests[album]
             /\ hits = Slots =>
                   /\ pending' = pending
                   /\ requests' = requests
                   /\ inflight' = inflight
                   /\ sent' = sent]_vars

\* A Processor has just been created all of whose keys were in the cache.
C14_Witness ==
    /\ Len(procs) = 2
    /\ Len(calls) = 3
    /\ \A i \in 1..Len(calls) :
          calls[i].proc = 2 /\ calls[i].cached /\ ~calls[i].pending
    /\ Len(sent) = 3
    /\ \A album \in Albums : requests[album] = 0

\* ------------------------------------------------------------------------
\* C15: after a response that lacks an expected field (the status, the
\* error of a failed status, toptags, the tag list, or the name of a tag)
\* the key is cached with the empty list, every caller so far has been
\* given the empty list, the key is not in the pending map and one request
\* only was ever sent for it.
\* ------------------------------------------------------------------------
LacksField(data) ==
    /\ ~IsNone(data.lfm)
    /\ LET lfm == Val(data.lfm) IN
       \/ IsNone(lfm.status)
       \/ Val(lfm.status) = "failed" /\ IsNone(lfm.error)
       \/ /\ Val(lfm.status) # "failed"
          /\ \/ IsNone(lfm.toptags)
             \/ IsNone(Val(lfm.toptags).tag)
             \/ \E i \in 1..Len(Val(Val(lfm.toptags).tag)) :
                   IsNone(Val(Val(lfm.toptags).tag)[i].name)

ParseAnomaly(k) ==
    /\ k \in DOMAIN answered
    /\ answered[k].error = 0
    /\ LacksField(answered[k].data)

C15_AnomalyCachedEmpty ==
    \A k \in DOMAIN answered :
        ParseAnomaly(k) =>
            /\ k \in DOMAIN cache
            /\ cache[k] = <<>>
            /\ k \notin DOMAIN pending
            /\ \A cb \in CallbacksOf(k) : Delivered(cb) = Some(<<>>)
            /\ Cardinality(SentFor(k)) = 1

\* ------------------------------------------------------------------------
\* C16: the names echoed by a response are excluded for that parse only:
\* every Processor's ignore set stays the set read from ignore_tags.txt,
\* and the list produced from a response is what parsing it with that
\* static set and the Processor's threshold gives, whatever the Processor
\* parsed before.
\* ------------------------------------------------------------------------
StaticIgnore == {lower(IgnoreFile[i]) : i \in 1..Len(IgnoreFile)}

C16_EchoExcludedForOneParse ==
    /\ \A p \in 1..Len(procs) : procs[p].ignore_tags = StaticIgnore
    /\ \A k \in DOMAIN answered :
          answered[k].outcome = "tags" =>
              answered[k].tags =
                  parse_response(answered[k].data, StaticIgnore,
                                 procs[answered[k].proc].min_tag_usage).tags

\* ------------------------------------------------------------------------
\* C17: two lookups have the same cache key only if they have the same
\* scope and the same identifying fields (artist; artist and title; album
\* and albumartist).
\* ------------------------------------------------------------------------
IdentityOf(cb) ==
    LET md == procs[cb.proc].metadata IN
    CASE cb.slot = "artist_tags" -> <<md.artist>>
      [] cb.slot = "track_tags" -> <<md.artist, md.title>>
      [] cb.slot = "album_tags" -> <<md.album, md.albumartist>>

C17_KeyInjective ==
    \A cb1, cb2 \in Callbacks :
        KeyOf(cb1) = KeyOf(cb2) =>
            cb1.slot = cb2.slot /\ IdentityOf(cb1) = IdentityOf(cb2)

\* ------------------------------------------------------------------------
\* C18: while a Processor of an album still has an unresolved slot, the
\* album's _requests counter is greater than zero, also when the Processor
\* only waits for a request sent for another album; so _finalize_loading
\* never finds the counter at zero before the genre of each of the album's
\* Processors is written.
\* ------------------------------------------------------------------------
C18_UnresolvedHoldsCounter ==
    \A p \in 1..Len(procs) :
        ~AllSlotsSet(p) => requests[procs[p].album] > 0

\* ------------------------------------------------------------------------
\* C19: when every request gets its callback run, with a response that is
\* not a semantic failure, every Processor finalizes, the pending map
\* empties and every album's _requests counter returns to zero.  Slots are
\* set and keys leave the pending map only while a callback runs, so this
\* is to hold in every state in which no request is in flight.
\* ------------------------------------------------------------------------
C19_QuiescentMeansDone ==
    inflight = {} =>
        /\ \A p \in 1..Len(procs) : ~IsNone(procs[p].genre)
        /\ DOMAIN pending = {}
        /\ \A album \in Albums : requests[album] = 0

====
